---- MODULE Spec2Model ----
(***************************************************************************)
(* A model of the MCP edge-function servers of this repository: the        *)
(* OAuth Protected Resource Metadata publisher and the bearer auth gate    *)
(* (authMiddleware) in front of the MCP endpoint.                          *)
(*                                                                         *)
(* The repository holds three variants of the server:                      *)
(*   "A"  src/unnamed/part_000          (PUBLIC_URL / AUTH_SERVER_URL)     *)
(*   "B"  src/unnamed/part_001:1-195    (getPublicBaseUrl, 'kong')         *)
(*   "C"  src/unnamed/part_001:197-378  (isLocal, MCP served at the root)  *)
(*                                                                         *)
(* Text (header values, URLs) is a sequence of symbols; a symbol stands    *)
(* for a run of characters without a space, and SP is one space. A header  *)
(* text is the value c.req.header('Authorization') hands to the gate.      *)
(*                                                                         *)
(* Spec follows one request at a time from its arrival to its response;    *)
(* the identity service issues and revokes tokens at any moment.           *)
(* SpecConfig starts the same server under every configuration of          *)
(* ConfigEnvs; SpecConc handles MaxInflight requests to the MCP endpoint   *)
(* at once, interleaved at their awaits.                                   *)
(***************************************************************************)
EXTENDS Naturals, Sequences, FiniteSets

VARIABLES
    variant,        \* which of the three server files is deployed
    env,            \* Deno.env: SUPABASE_URL, PUBLIC_URL, AUTH_SERVER_URL
    phase,          \* "starting" | "serving" | "crashed"
    urls,           \* module-level constants computed when the module loads
    idpValid,       \* identity service: the tokens it currently accepts
    pc,             \* "idle" | "awaiting" | "handling" | "done"
    req,            \* the request being handled: method, path, header
    token,          \* the credential handed to validateToken
    calls,          \* introspection attempts: validateToken(token) calls for this request
    ctxUser,        \* c.get('user'): request-scoped state
    nextCalls,      \* times the gate called next() for this request
    handlerRuns,    \* times the MCP endpoint handler ran for this request
    seenUser,       \* c.get('user') when the MCP endpoint handler ran
    ires,           \* what getUser() gave for this request
    resp,           \* the response sent for this request
    lastAdmitted,   \* history: the token of the last request the gate admitted
    conns,          \* requests in flight at once: each one's own context
    serverTransport, \* the module-level McpServer: the transport it is connected to
    browser         \* the user's browser in the consent flow: page, storage, location

vars == <<variant, env, phase, urls, idpValid, pc, req, token, calls, ctxUser,
          nextCalls, handlerRuns, seenUser, ires, resp, lastAdmitted,
          conns, serverTransport, browser>>

----------------------------------------------------------------------------
(* Bounds *)

MaxHdrLen == 3
\* Requests in flight at once
MaxInflight == 2

\* Longest Authorization header of the requests that exercise the parse
MaxLongHdrLen == 5

----------------------------------------------------------------------------
(* JavaScript values *)

SP == " "
\* undefined, for a string and for a text
Undefined == "<undefined>"
UndefinedText == <<Undefined>>

\* !x for a string, and for a text
Falsy(s) == s \in {Undefined, ""}
FalsyText(t) == t = UndefinedText \/ t = <<>>

\* a || b
OrElse(a, b) == IF Falsy(a) THEN b ELSE a
OrElseText(a, b) == IF FalsyText(a) THEN b ELSE a

\* `${t}`
Interpolate(t) == IF t = UndefinedText THEN <<"undefined">> ELSE t

\* text.includes(pat)
Includes(t, pat) ==
    \E i \in 1..(Len(t) + 1) :
        /\ i + Len(pat) - 1 <= Len(t)
        /\ SubSeq(t, i, i + Len(pat) - 1) = pat

\* symbol.toLowerCase()
LowerSym(x) ==
    CASE x = "Bearer" -> "bearer"
      [] x = "BEARER" -> "bearer"
      [] x = "Basic"  -> "basic"
      [] OTHER        -> x

\* text.toLowerCase()
ToLowerCase(t) == [i \in 1..Len(t) |-> LowerSym(t[i])]

\* text.split(' '): the segments between single spaces, empty ones included
RECURSIVE SplitFrom(_, _, _)
SplitFrom(t, i, cur) ==
    IF i > Len(t) THEN <<cur>>
    ELSE IF t[i] = SP THEN <<cur>> \o SplitFrom(t, i + 1, <<>>)
    ELSE SplitFrom(t, i + 1, Append(cur, t[i]))

Split(t) == SplitFrom(t, 1, <<>>)

----------------------------------------------------------------------------
(* Configuration: the module-level constants of each variant *)

Variants == {"A", "B", "C"}

functionName == [v \in Variants |->
    CASE v = "A" -> "simple-mcp-server"
      [] v = "B" -> "simple-mcp-server"
      [] v = "C" -> "mcp"]

LocalBase == <<"http://", "localhost", ":54321">>

\* Variant B: getPublicBaseUrl()
getPublicBaseUrl(rawSupabaseUrl) ==
    IF Includes(rawSupabaseUrl, <<"kong">>) THEN LocalBase ELSE rawSupabaseUrl

\* Variant C: isLocal
isLocal(supabaseUrl) ==
    \/ Includes(supabaseUrl, <<"127.0.0.1">>)
    \/ Includes(supabaseUrl, <<"localhost">>)
    \/ Includes(supabaseUrl, <<"kong", ":8000">>)

\* Faulty version: the constants computed for the local stack once a request
\* has been admitted, instead of from the environment alone
ModuleConstants_Drifting(v, e) ==
    IF lastAdmitted # UndefinedText
    THEN [supabaseUrl   |-> LocalBase,
          publicUrl     |-> LocalBase \o <<"/functions/v1/", functionName[v]>>,
          authServerUrl |-> LocalBase \o <<"/auth/v1">>]
    ELSE
        CASE v = "A" ->
                [supabaseUrl   |-> e.SUPABASE_URL,
                 publicUrl     |-> OrElseText(e.PUBLIC_URL,
                                     Interpolate(e.SUPABASE_URL)
                                         \o <<"/functions/v1/", "simple-mcp-server">>),
                 authServerUrl |-> OrElseText(e.AUTH_SERVER_URL,
                                     Interpolate(e.SUPABASE_URL) \o <<"/auth/v1">>)]
          [] v = "B" ->
                [supabaseUrl   |-> getPublicBaseUrl(e.SUPABASE_URL),
                 publicUrl     |-> UndefinedText,
                 authServerUrl |-> UndefinedText]
          [] v = "C" ->
                [supabaseUrl   |-> e.SUPABASE_URL,
                 publicUrl     |-> IF isLocal(e.SUPABASE_URL)
                                   THEN LocalBase \o <<"/functions/v1/", "mcp">>
                                   ELSE Interpolate(e.SUPABASE_URL)
                                            \o <<"/functions/v1/", "mcp">>,
                 authServerUrl |-> IF isLocal(e.SUPABASE_URL)
                                   THEN LocalBase \o <<"/auth/v1">>
                                   ELSE Interpolate(e.SUPABASE_URL) \o <<"/auth/v1">>]

\* The module-level constants: supabaseUrl, publicUrl, authServerUrl
ModuleConstants(v, e) ==
    CASE v = "A" ->
            [supabaseUrl   |-> e.SUPABASE_URL,
             publicUrl     |-> OrElseText(e.PUBLIC_URL,
                                 Interpolate(e.SUPABASE_URL)
                                     \o <<"/functions/v1/", "simple-mcp-server">>),
             authServerUrl |-> OrElseText(e.AUTH_SERVER_URL,
                                 Interpolate(e.SUPABASE_URL) \o <<"/auth/v1">>)]
      [] v = "B" ->
            [supabaseUrl   |-> getPublicBaseUrl(e.SUPABASE_URL),
             publicUrl     |-> UndefinedText,
             authServerUrl |-> UndefinedText]
      [] v = "C" ->
            [supabaseUrl   |-> e.SUPABASE_URL,
             publicUrl     |-> IF isLocal(e.SUPABASE_URL)
                               THEN LocalBase \o <<"/functions/v1/", "mcp">>
                               ELSE Interpolate(e.SUPABASE_URL)
                                        \o <<"/functions/v1/", "mcp">>,
             authServerUrl |-> IF isLocal(e.SUPABASE_URL)
                               THEN LocalBase \o <<"/auth/v1">>
                               ELSE Interpolate(e.SUPABASE_URL) \o <<"/auth/v1">>]

\* Loading the module throws when .includes is called on undefined
LoadThrows(v, e) == v \in {"B", "C"} /\ e.SUPABASE_URL = UndefinedText

NoUrls == [supabaseUrl |-> UndefinedText, publicUrl |-> UndefinedText,
           authServerUrl |-> UndefinedText]

\* getUrls()
getUrls(v, u) ==
    IF v = "B"
    THEN [mcpResourceUrl |-> Interpolate(u.supabaseUrl)
                                 \o <<"/functions/v1/", functionName[v]>>,
          wellKnownAuthorizationServerUrl |->
                             Interpolate(u.supabaseUrl) \o <<"/auth/v1">>]
    ELSE [mcpResourceUrl |-> u.publicUrl,
          wellKnownAuthorizationServerUrl |-> u.authServerUrl]

\* The environments the model starts from
ProdUrl == <<"https://", "proj", ".supabase.co">>
KongUrl == <<"http://", "kong", ":8000">>
PublicOverride == <<"https://", "mcp.example.com">>
AuthOverride == <<"https://", "auth.example.com">>

Envs ==
    { [SUPABASE_URL |-> ProdUrl, PUBLIC_URL |-> UndefinedText,
       AUTH_SERVER_URL |-> UndefinedText],
      [SUPABASE_URL |-> KongUrl, PUBLIC_URL |-> UndefinedText,
       AUTH_SERVER_URL |-> UndefinedText],
      [SUPABASE_URL |-> ProdUrl, PUBLIC_URL |-> PublicOverride,
       AUTH_SERVER_URL |-> AuthOverride],
      [SUPABASE_URL |-> UndefinedText, PUBLIC_URL |-> UndefinedText,
       AUTH_SERVER_URL |-> UndefinedText] }

\* Further base URLs: the loopback hosts, and production hosts whose name
\* contains the text 'kong' or 'localhost'
LocalhostUrl == <<"http://", "localhost", ":54321">>
LoopbackUrl == <<"http://", "127.0.0.1", ":54321">>
KongNamedProdUrl == <<"https://", "kong", "-proj", ".supabase.co">>
LocalhostNamedProdUrl == <<"https://", "my", "localhost", ".example.com">>

\* A public-URL override naming the local function address
LocalFunctionUrl == LocalBase \o <<"/functions/v1/", "simple-mcp-server">>

ConfigBases ==
    {ProdUrl, KongUrl, LocalhostUrl, LoopbackUrl, KongNamedProdUrl,
     LocalhostNamedProdUrl, UndefinedText}

\* Every base URL without overrides, and a production, a local and an absent
\* base URL with every combination of the two overrides
ConfigEnvs ==
    { [SUPABASE_URL |-> b, PUBLIC_URL |-> UndefinedText,
       AUTH_SERVER_URL |-> UndefinedText] : b \in ConfigBases }
    \cup
    { [SUPABASE_URL |-> b, PUBLIC_URL |-> p, AUTH_SERVER_URL |-> a] :
          b \in {ProdUrl, KongUrl, UndefinedText},
          p \in {UndefinedText, PublicOverride},
          a \in {UndefinedText, AuthOverride} }
    \cup
    { [SUPABASE_URL |-> KongUrl, PUBLIC_URL |-> LocalFunctionUrl,
       AUTH_SERVER_URL |-> UndefinedText] }

----------------------------------------------------------------------------
(* Requests and routing *)

Methods == {"GET", "POST", "DELETE"}

WellKnown == "/.well-known/oauth-protected-resource"

\* Request paths, relative to the app's basePath
Paths == {"/", "/mcp", WellKnown}

HeaderSymbols == {SP, "Bearer", "BEARER", "Basic", "t1", "t2"}

\* The Authorization header values: every text of at most MaxHdrLen symbols
HeaderTexts == UNION {[1..n -> HeaderSymbols] : n \in 0..MaxHdrLen}

\* c.req.header('Authorization'): undefined when the request has none
NoHeader == UndefinedText
Headers == HeaderTexts \cup {NoHeader}

\* Longer header values over fewer symbols: up to three segments, with runs of
\* spaces
SegmentSymbols == {SP, "Bearer", "t1", "t2"}
LongHeaders == UNION {[1..n -> SegmentSymbols] : n \in 0..MaxLongHdrLen}

\* The routes in the order the module registers them; "ALL" is app.use / app.all
Routes(v) ==
    IF v = "C"
    THEN << [method |-> "GET",  path |-> WellKnown, handler |-> "metadata"],
            [method |-> "GET",  path |-> "/",       handler |-> "health"],
            [method |-> "ALL",  path |-> "/",       handler |-> "authMiddleware"],
            [method |-> "POST", path |-> "/",       handler |-> "mcp"] >>
    ELSE << [method |-> "GET",  path |-> WellKnown, handler |-> "metadata"],
            [method |-> "GET",  path |-> "/",       handler |-> "health"],
            [method |-> "ALL",  path |-> "/mcp",    handler |-> "authMiddleware"],
            [method |-> "ALL",  path |-> "/mcp",    handler |-> "mcp"] >>

\* The path the server's metadata names as its MCP endpoint
McpPath(v) == IF v = "C" THEN "/" ELSE "/mcp"

\* Hono: the handlers matching a request, in registration order
RouteMatches(rt, m, p) == rt.path = p /\ rt.method \in {"ALL", m}

Chain(v, m, p) ==
    LET matched == SelectSeq(Routes(v), LAMBDA rt : RouteMatches(rt, m, p))
    IN  [i \in 1..Len(matched) |-> matched[i].handler]

FirstHandler(v, m, p) ==
    IF Chain(v, m, p) = <<>> THEN "notFound" ELSE Chain(v, m, p)[1]

\* What next() reaches after the gate
AfterGate(v, m, p) ==
    LET c == Chain(v, m, p)
        k == CHOOSE i \in 1..Len(c) : c[i] = "authMiddleware"
    IN  IF k < Len(c) THEN c[k + 1] ELSE "notFound"

\* The public base URLs under which the platform serves the project: the
\* local stack (kong:8000 inside Docker) at localhost:54321 on the host, a
\* hosted project at its SUPABASE_URL
PublicBases(e) ==
    IF e.SUPABASE_URL = UndefinedText THEN {}
    ELSE IF e.SUPABASE_URL \in {KongUrl, LocalhostUrl, LoopbackUrl}
    THEN {LocalhostUrl, LoopbackUrl}
    ELSE {e.SUPABASE_URL}

\* The addresses at which a client reaches the function's app
ServedAt(v, e) ==
    {b \o <<"/functions/v1/", functionName[v]>> : b \in PublicBases(e)}

\* A client's GET of a URL text: the handler of this server it is routed to,
\* "unreachable" when the URL is none of this server's
FetchRoute(v, e, url) ==
    IF \E a \in ServedAt(v, e), p \in Paths : url = a \o <<p>>
    THEN LET p == CHOOSE q \in Paths : \E a \in ServedAt(v, e) : url = a \o <<q>>
         IN  FirstHandler(v, "GET", p)
    ELSE "unreachable"

----------------------------------------------------------------------------
(* Responses *)

NoText == UndefinedText

NoResp == [status |-> 0, by |-> "none", body |-> [none |-> TRUE], www |-> NoText]

\* buildWwwAuthenticateHeader(error, errorDescription)
buildWwwAuthenticateHeader(v, u, error, errorDescription) ==
    LET resourceMetadataUrl == Interpolate(getUrls(v, u).mcpResourceUrl)
                                   \o <<WellKnown>>
        h0 == <<"Bearer resource_metadata=\"">> \o resourceMetadataUrl \o <<"\"">>
        h1 == IF Falsy(error) THEN h0
              ELSE h0 \o <<", error=\"", error, "\"">>
    IN  IF Falsy(errorDescription) THEN h1
        ELSE h1 \o <<", error_description=\"", errorDescription, "\"">>

\* c.json({error, error_description}, 401, {'WWW-Authenticate': www})
Reject(error, description, www) ==
    [status |-> 401, by |-> "authMiddleware",
     body |-> [error |-> error, error_description |-> description],
     www |-> www]

\* Faulty version: the document with its two URLs swapped
MetadataResponse_Swapped(v, u) ==
    [status |-> 200, by |-> "metadata",
     body |-> [resource |-> getUrls(v, u).wellKnownAuthorizationServerUrl,
               authorization_servers |-> <<getUrls(v, u).mcpResourceUrl>>,
               scopes_supported |-> <<"openid", "profile", "email">>],
     www |-> NoText]

\* app.get('/.well-known/oauth-protected-resource')
MetadataResponse(v, u) ==
    [status |-> 200, by |-> "metadata",
     body |-> [resource |-> getUrls(v, u).mcpResourceUrl,
               authorization_servers |->
                   <<getUrls(v, u).wellKnownAuthorizationServerUrl>>,
               scopes_supported |-> <<"openid", "profile", "email">>],
     www |-> NoText]

\* app.get('/')
HealthResponse(v) ==
    [status |-> 200, by |-> "health",
     body |-> [name |-> IF v = "C" THEN "mcp-server" ELSE "simple-mcp-server",
               version |-> "1.0.0",
               endpoints |-> [mcp |-> McpPath(v), oauthMetadata |-> WellKnown]],
     www |-> NoText]

\* Hono's default notFound and onError responses
NotFoundResponse ==
    [status |-> 404, by |-> "notFound", body |-> [text |-> "404 Not Found"],
     www |-> NoText]
ErrorResponse ==
    [status |-> 500, by |-> "onError", body |-> [text |-> "Internal Server Error"],
     www |-> NoText]

\* transport.handleRequest(c)
McpResponse ==
    [status |-> 200, by |-> "mcp", body |-> [mcp |-> TRUE], www |-> NoText]

----------------------------------------------------------------------------
(* The identity service: supabase.auth.getUser() *)

\* The credentials the identity service can issue
Tokens == {<<"t1">>, <<"t2">>}

Null == "null"
NoError == <<>>

UserOf(tok) == IF tok = <<"t1">> THEN "user-1" ELSE "user-2"

\* What getUser() can resolve to for a credential: {data: {user}, error}
GetUserAnswers(tok) ==
    (IF tok \in idpValid
     THEN {[user |-> UserOf(tok), error |-> NoError]}
     ELSE {[user |-> Null, error |-> <<"invalid JWT">>],
           [user |-> Null, error |-> <<"">>],
           [user |-> Null, error |-> NoError]})
    \cup {[user |-> Null, error |-> <<"fetch failed">>]}

NoAnswer == [user |-> Null, error |-> <<"<none>">>]
ThrownAnswer == [user |-> Null, error |-> <<"<thrown>">>]

\* createClient(supabaseUrl, supabaseAnonKey, ...) throws when it is given no URL
CreateClientThrows(u) == FalsyText(u.supabaseUrl)

\* error?.message
MessageOf(error) == IF error = NoError THEN Undefined ELSE error[1]

----------------------------------------------------------------------------
(* The bearer auth gate *)

\* Faulty version: validateToken without the `!user` test
validateToken_NoUserTest(r) ==
    IF r.error # NoError
    THEN [valid |-> FALSE, user |-> Undefined,
          error |-> OrElse(MessageOf(r.error), "Invalid token")]
    ELSE [valid |-> TRUE, user |-> r.user, error |-> Undefined]

\* Faulty version: validateToken trusting a token the gate admitted before
validateToken_Cached(r) ==
    IF token = lastAdmitted
    THEN [valid |-> TRUE, user |-> UserOf(token), error |-> Undefined]
    ELSE IF r.error # NoError \/ r.user = Null
    THEN [valid |-> FALSE, user |-> Undefined,
          error |-> OrElse(MessageOf(r.error), "Invalid token")]
    ELSE [valid |-> TRUE, user |-> r.user, error |-> Undefined]

\* Faulty version: validateToken passing the message on without its default
validateToken_NoDefault(r) ==
    IF r.error # NoError \/ r.user = Null
    THEN [valid |-> FALSE, user |-> Undefined, error |-> MessageOf(r.error)]
    ELSE [valid |-> TRUE, user |-> r.user, error |-> Undefined]

\* Faulty version: validateToken handing back a principal other than the one returned
validateToken_OtherUser(r) ==
    IF r.error # NoError \/ r.user = Null
    THEN [valid |-> FALSE, user |-> Undefined,
          error |-> OrElse(MessageOf(r.error), "Invalid token")]
    ELSE [valid |-> TRUE, user |-> UserOf(<<"t1">>), error |-> Undefined]

\* validateToken, from the awaited getUser() result on
validateToken(r) ==
    IF r.error # NoError \/ r.user = Null
    THEN [valid |-> FALSE, user |-> Undefined,
          error |-> OrElse(MessageOf(r.error), "Invalid token")]
    ELSE [valid |-> TRUE, user |-> r.user, error |-> Undefined]

\* const [scheme, token] = authHeader.split(' ')
SchemeOf(authHeader) == Split(authHeader)[1]

\* Faulty version: the credential taken from the last segment
TokenOf_LastSegment(authHeader) ==
    IF Len(Split(authHeader)) >= 2
    THEN Split(authHeader)[Len(Split(authHeader))] ELSE UndefinedText

TokenOf(authHeader) ==
    IF Len(Split(authHeader)) >= 2 THEN Split(authHeader)[2] ELSE UndefinedText

\* Faulty version: the scheme compared without toLowerCase()
BadFormat_CaseSensitive(authHeader) ==
    \/ SchemeOf(authHeader) # <<"bearer">>
    \/ FalsyText(TokenOf(authHeader))

\* scheme?.toLowerCase() !== 'bearer' || !token
BadFormat(authHeader) ==
    \/ ToLowerCase(SchemeOf(authHeader)) # <<"bearer">>
    \/ FalsyText(TokenOf(authHeader))

\* Faulty version: the gate without its format check
GateCheck_NoFormatCheck(authHeader) ==
    IF FalsyText(authHeader) THEN "missing" ELSE "validate"

\* Faulty version: the gate testing for an absent header only, not for an
\* empty one
GateCheck_AbsentOnly(authHeader) ==
    IF authHeader = UndefinedText THEN "missing"
    ELSE IF BadFormat(authHeader) THEN "malformed"
    ELSE "validate"

\* authMiddleware up to its await: a 401, or the credential to validate
GateCheck(authHeader) ==
    IF FalsyText(authHeader) THEN "missing"
    ELSE IF BadFormat(authHeader) THEN "malformed"
    ELSE "validate"

\* authMiddleware's answer when validateToken says the token is not valid
RejectInvalidToken(v, u, error) ==
    Reject("invalid_token", OrElse(error, "Token validation failed"),
           buildWwwAuthenticateHeader(v, u, "invalid_token", error))

\* Faulty version: the missing-header challenge built with the error fields
RejectMissing_WithErrorFields(v, u) ==
    Reject("unauthorized", "Missing authorization header",
           buildWwwAuthenticateHeader(v, u, "unauthorized",
                                      "Missing authorization header"))

\* authMiddleware's answer when the request has no Authorization header
RejectMissing(v, u) ==
    Reject("unauthorized", "Missing authorization header",
           buildWwwAuthenticateHeader(v, u, Undefined, Undefined))

\* authMiddleware's answer when the header is not "Bearer <token>"
RejectBadFormat(v, u) ==
    Reject("invalid_request", "Invalid authorization header format",
           buildWwwAuthenticateHeader(v, u, "invalid_request",
                                      "Bearer token required"))

----------------------------------------------------------------------------
(* The consent page and the callback page *)

\* The two ConsentForm components: the one that sends the client's OAuth
\* parameters to the authorize endpoint, and the one that signs in with Google
\* and carries the parameters in `state`
ConsentVersions == {"direct", "google"}

ClientUri == "https://client.example/cb"
OtherUri == "https://other.example/cb"
RelativeUri == "/cb"

\* new URL(u) throws a TypeError for a text that is no absolute URL
URLThrows(u) == u \notin {ClientUri, OtherUri}

\* The query of the consent page's address: searchParams.get gives null for a
\* parameter that is not there
ConsentQueries ==
    [client_id : {Null, "c1"},
     redirect_uri : {Null, ClientUri, RelativeUri},
     state : {Null, "s1"},
     code_challenge : {Null, "ch"},
     code_challenge_method : {Null, "S256"}]

\* a || b for a value that may be null
OrDefault(a, b) == IF a \in {Null, Undefined, ""} THEN b ELSE a

\* ConsentForm's constants
ConsentForm(q) ==
    [clientId |-> OrDefault(q.client_id, "Unknown Client"),
     redirectUri |-> OrDefault(q.redirect_uri, ""),
     state |-> OrDefault(q.state, ""),
     codeChallenge |-> OrDefault(q.code_challenge, ""),
     codeChallengeMethod |-> OrDefault(q.code_challenge_method, "")]

\* The MCP OAuth parameters as one object
NoParams ==
    [client_id |-> "", redirect_uri |-> "", state |-> "", code_challenge |-> "",
     code_challenge_method |-> ""]

\* An address to send the browser to: new URL(u), and searchParams.set
NoCode ==
    [set |-> FALSE, access_token |-> "", client_id |-> "", code_challenge |-> "",
     code_challenge_method |-> ""]

NewURL(u) ==
    [href |-> u, error |-> Null, error_description |-> Null, state |-> Null,
     code |-> NoCode]

NoLocation == NewURL(Undefined)

\* if (v) url.searchParams.set(name, v)
SetIf(v) == IF v \in {Null, Undefined, ""} THEN Null ELSE v

\* handleSubmit("deny"): errorUrl
DenyUrl(f) ==
    [NewURL(f.redirectUri) EXCEPT
        !.error = "access_denied",
        !.error_description = "User denied the request",
        !.state = SetIf(f.state)]

\* The request to ${NEXT_PUBLIC_SUPABASE_URL}/auth/v1/authorize. In `state`,
\* "btoa(JSON)" stands for the base64 text of the JSON text of mcpOAuthState.
NoAuthorize ==
    [sent |-> FALSE, client_id |-> Null, redirect_uri |-> Null,
     response_type |-> Null, state |-> Null, code_challenge |-> Null,
     code_challenge_method |-> Null, provider |-> Null, redirect_to |-> Null,
     mcpOAuthState |-> NoParams]

CallbackPage == "/oauth/callback"

\* handleSubmit("allow"): authUrl
AuthUrl(version, f) ==
    IF version = "direct"
    THEN [NoAuthorize EXCEPT
             !.sent = TRUE,
             !.client_id = f.clientId,
             !.redirect_uri = f.redirectUri,
             !.response_type = "code",
             !.state = SetIf(f.state),
             !.code_challenge = SetIf(f.codeChallenge),
             !.code_challenge_method = SetIf(f.codeChallengeMethod)]
    ELSE [NoAuthorize EXCEPT
             !.sent = TRUE,
             !.provider = "google",
             !.redirect_to = CallbackPage,
             !.state = "btoa(JSON)",
             !.mcpOAuthState =
                 [client_id |-> f.clientId, redirect_uri |-> f.redirectUri,
                  state |-> f.state, code_challenge |-> f.codeChallenge,
                  code_challenge_method |-> f.codeChallengeMethod]]

\* localStorage.getItem("mcp_oauth_params"): null, a text that is no JSON, or
\* the JSON text of an object (a field it lacks reads as undefined, here "")
StoredObjects ==
    [client_id : {"c1"},
     redirect_uri : {"", ClientUri, OtherUri, RelativeUri},
     state : {"", "s1", "s2"},
     code_challenge : {"ch"},
     code_challenge_method : {"S256"}]

NoItem == [kind |-> "null", obj |-> NoParams]

StoredItems ==
    {NoItem, [kind |-> "garbage", obj |-> NoParams]}
        \cup {[kind |-> "json", obj |-> o] : o \in StoredObjects}

\* What the identity provider puts in the callback page's address: the query's
\* error and error_description, the fragment's access_token
NoCallbackUrl == [error |-> Null, error_description |-> Null, access_token |-> Null]

CallbackUrls ==
    [error : {Null, "server_error"},
     error_description : {Null, "failed"},
     access_token : {Null, "at"}]

\* handleCallback's catch block
Caught(message, item) ==
    [kind |-> "caught", errorMessage |-> message, url |-> NoLocation,
     localStorage |-> item]

\* Faulty version: the identity provider's error looked at after the access
\* token
handleCallback_TokenFirst(storedParams, cb) ==
    IF storedParams.kind = "null"
    THEN Caught("Missing OAuth parameters. Please start the authorization flow again.",
                storedParams)
    ELSE IF storedParams.kind = "garbage"
    THEN Caught("Invalid OAuth parameters", storedParams)
    ELSE LET mcpParams == storedParams.obj
         IN  IF mcpParams.redirect_uri = ""
             THEN Caught("Missing redirect_uri in state", NoItem)
             ELSE IF URLThrows(mcpParams.redirect_uri)
             THEN Caught("Invalid URL", NoItem)
             ELSE IF SetIf(cb.access_token) # Null
             THEN [kind |-> "success", errorMessage |-> "",
                   url |-> [NewURL(mcpParams.redirect_uri) EXCEPT
                               !.code = [set |-> TRUE,
                                         access_token |-> cb.access_token,
                                         client_id |-> mcpParams.client_id,
                                         code_challenge |-> mcpParams.code_challenge,
                                         code_challenge_method |->
                                             mcpParams.code_challenge_method],
                               !.state = SetIf(mcpParams.state)],
                   localStorage |-> NoItem]
             ELSE IF SetIf(cb.error) # Null
             THEN [kind |-> "errorUrl", errorMessage |-> "",
                   url |-> [NewURL(mcpParams.redirect_uri) EXCEPT
                               !.error = cb.error,
                               !.error_description = SetIf(cb.error_description),
                               !.state = SetIf(mcpParams.state)],
                   localStorage |-> NoItem]
             ELSE Caught("No access token received from authentication", NoItem)

\* handleCallback, up to its setTimeout: what it caught, or the address it
\* built, and what it left in localStorage
handleCallback(storedParams, cb) ==
    IF storedParams.kind = "null"
    THEN Caught("Missing OAuth parameters. Please start the authorization flow again.",
                storedParams)
    ELSE IF storedParams.kind = "garbage"
    THEN Caught("Invalid OAuth parameters", storedParams)
    ELSE LET mcpParams == storedParams.obj
         IN  IF mcpParams.redirect_uri = ""
             THEN Caught("Missing redirect_uri in state", NoItem)
             ELSE IF SetIf(cb.error) # Null
             THEN IF URLThrows(mcpParams.redirect_uri)
                  THEN Caught("Invalid URL", NoItem)
                  ELSE [kind |-> "errorUrl", errorMessage |-> "",
                        url |-> [NewURL(mcpParams.redirect_uri) EXCEPT
                                    !.error = cb.error,
                                    !.error_description = SetIf(cb.error_description),
                                    !.state = SetIf(mcpParams.state)],
                        localStorage |-> NoItem]
             ELSE IF SetIf(cb.access_token) = Null
             THEN Caught("No access token received from authentication", NoItem)
             ELSE IF URLThrows(mcpParams.redirect_uri)
             THEN Caught("Invalid URL", NoItem)
             ELSE [kind |-> "success", errorMessage |-> "",
                   url |-> [NewURL(mcpParams.redirect_uri) EXCEPT
                               !.code = [set |-> TRUE,
                                         access_token |-> cb.access_token,
                                         client_id |-> mcpParams.client_id,
                                         code_challenge |-> mcpParams.code_challenge,
                                         code_challenge_method |->
                                             mcpParams.code_challenge_method],
                               !.state = SetIf(mcpParams.state)],
                   localStorage |-> NoItem]

\* The browser before the flow starts
NoBrowser ==
    [pc |-> "closed", version |-> "direct", query |-> NoParams,
     localStorage |-> NoItem, storedParams |-> NoItem,
     authorize |-> NoAuthorize,
     callbackUrl |-> NoCallbackUrl, status |-> "loading", errorMessage |-> "",
     redirectUrl |-> NoLocation, location |-> NoLocation, leftFrom |-> "none"]

----------------------------------------------------------------------------
(* The state machine *)

NoReq == [method |-> "-", path |-> "-", header |-> NoHeader]
NoUser == Undefined

\* The requests in flight, and the context of one of them
Slots == 1..MaxInflight

NoTransport == 0

IdleConn == [pc |-> "idle", header |-> NoHeader, token |-> NoText,
             ires |-> NoAnswer, ctxUser |-> NoUser, seenUser |-> NoUser,
             resp |-> NoResp]

NoConns == [s \in Slots |-> IdleConn]

concVars == <<conns, serverTransport>>

Init ==
    /\ variant \in Variants
    /\ env \in Envs
    /\ phase = "starting"
    /\ urls = NoUrls
    /\ idpValid = {}
    /\ pc = "idle"
    /\ req = NoReq
    /\ token = NoText
    /\ calls = 0
    /\ ctxUser = NoUser
    /\ nextCalls = 0
    /\ handlerRuns = 0
    /\ seenUser = NoUser
    /\ ires = NoAnswer
    /\ resp = NoResp
    /\ lastAdmitted = NoText
    /\ conns = NoConns
    /\ serverTransport = NoTransport
    /\ browser = NoBrowser

reqVars == <<pc, req, token, calls, ctxUser, nextCalls, handlerRuns, seenUser,
             ires, resp>>

\* The module loads: the constants are computed, then Deno.serve(app.fetch)
Startup ==
    /\ phase = "starting"
    /\ IF LoadThrows(variant, env)
       THEN phase' = "crashed" /\ urls' = urls
       ELSE phase' = "serving" /\ urls' = ModuleConstants(variant, env)
    /\ UNCHANGED <<variant, env, idpValid, reqVars, lastAdmitted>>
    /\ UNCHANGED concVars
    /\ UNCHANGED browser

\* The identity service issues or revokes a token
Issue(t) ==
    /\ t \notin idpValid
    /\ idpValid' = idpValid \cup {t}
    /\ UNCHANGED <<variant, env, phase, urls, reqVars, lastAdmitted>>
    /\ UNCHANGED concVars
    /\ UNCHANGED browser

Revoke(t) ==
    /\ t \in idpValid
    /\ idpValid' = idpValid \ {t}
    /\ UNCHANGED <<variant, env, phase, urls, reqVars, lastAdmitted>>
    /\ UNCHANGED concVars
    /\ UNCHANGED browser

\* A request arrives and Hono dispatches it to the first matching handler
ArrivesWith(first, headers) ==
    /\ phase = "serving"
    /\ pc = "idle"
    /\ \E m \in Methods, p \in Paths :
          /\ FirstHandler(variant, m, p) = first
          /\ \E h \in headers : req' = [method |-> m, path |-> p, header |-> h]

Arrives(first) == ArrivesWith(first, Headers)

Metadata ==
    /\ Arrives("metadata")
    /\ resp' = MetadataResponse(variant, urls)
    /\ pc' = "done"
    /\ UNCHANGED <<variant, env, phase, urls, idpValid, token, calls, ctxUser,
                   nextCalls, handlerRuns, seenUser, ires, lastAdmitted>>
    /\ UNCHANGED concVars
    /\ UNCHANGED browser

Health ==
    /\ Arrives("health")
    /\ resp' = HealthResponse(variant)
    /\ pc' = "done"
    /\ UNCHANGED <<variant, env, phase, urls, idpValid, token, calls, ctxUser,
                   nextCalls, handlerRuns, seenUser, ires, lastAdmitted>>
    /\ UNCHANGED concVars
    /\ UNCHANGED browser

NotFound ==
    /\ Arrives("notFound")
    /\ resp' = NotFoundResponse
    /\ pc' = "done"
    /\ UNCHANGED <<variant, env, phase, urls, idpValid, token, calls, ctxUser,
                   nextCalls, handlerRuns, seenUser, ires, lastAdmitted>>
    /\ UNCHANGED concVars
    /\ UNCHANGED browser

\* authMiddleware, up to `await validateToken(token)`
AuthMiddlewareOn(headers) ==
    /\ ArrivesWith("authMiddleware", headers)
    /\ CASE GateCheck(req'.header) = "missing" ->
              /\ resp' = RejectMissing(variant, urls)
              /\ pc' = "done"
              /\ UNCHANGED <<token, calls>>
         [] GateCheck(req'.header) = "malformed" ->
              /\ resp' = RejectBadFormat(variant, urls)
              /\ pc' = "done"
              /\ UNCHANGED <<token, calls>>
         [] GateCheck(req'.header) = "validate" ->
              /\ token' = TokenOf(req'.header)
              /\ calls' = calls + 1
              /\ pc' = "awaiting"
              /\ UNCHANGED resp
    /\ UNCHANGED <<variant, env, phase, urls, idpValid, ctxUser, nextCalls,
                   handlerRuns, seenUser, ires, lastAdmitted>>
    /\ UNCHANGED concVars
    /\ UNCHANGED browser

AuthMiddleware == AuthMiddlewareOn(Headers)

\* getUser() resolves; validateToken returns; authMiddleware rejects, or sets
\* the user and calls next(), which runs the handler registered after the gate
GetUserResolves(r) ==
    /\ pc = "awaiting"
    /\ ~CreateClientThrows(urls)
    /\ r \in GetUserAnswers(token)
    /\ ires' = r
    /\ LET vt == validateToken(r)
           after == AfterGate(variant, req.method, req.path)
       IN  IF ~vt.valid
           THEN /\ resp' = RejectInvalidToken(variant, urls, vt.error)
                /\ pc' = "done"
                /\ UNCHANGED <<ctxUser, nextCalls, handlerRuns, seenUser>>
           ELSE /\ ctxUser' = vt.user
                /\ nextCalls' = nextCalls + 1
                /\ IF after = "mcp"
                   THEN /\ handlerRuns' = handlerRuns + 1
                        /\ seenUser' = vt.user
                        /\ pc' = "handling"
                        /\ UNCHANGED resp
                   ELSE /\ resp' = NotFoundResponse
                        /\ pc' = "done"
                        /\ UNCHANGED <<handlerRuns, seenUser>>
    /\ UNCHANGED <<variant, env, phase, urls, idpValid, req, token, calls,
                   lastAdmitted>>
    /\ UNCHANGED concVars
    /\ UNCHANGED browser

\* getUser() (or createClient) throws: nothing in validateToken or in
\* authMiddleware catches it, and Hono's onError answers
GetUserThrows ==
    /\ pc = "awaiting"
    /\ ires' = ThrownAnswer
    /\ resp' = ErrorResponse
    /\ pc' = "done"
    /\ UNCHANGED <<variant, env, phase, urls, idpValid, req, token, calls,
                   ctxUser, nextCalls, handlerRuns, seenUser, lastAdmitted>>
    /\ UNCHANGED concVars
    /\ UNCHANGED browser

\* The MCP endpoint handler answers: transport.handleRequest
McpEndpoint ==
    /\ pc = "handling"
    /\ resp' = McpResponse
    /\ pc' = "done"
    /\ UNCHANGED <<variant, env, phase, urls, idpValid, req, token, calls,
                   ctxUser, nextCalls, handlerRuns, seenUser, ires, lastAdmitted>>
    /\ UNCHANGED concVars
    /\ UNCHANGED browser

\* The response is sent; the request's context is dropped
Finish ==
    /\ pc = "done"
    /\ pc' = "idle"
    /\ req' = NoReq
    /\ token' = NoText
    /\ calls' = 0
    /\ ctxUser' = NoUser
    /\ nextCalls' = 0
    /\ handlerRuns' = 0
    /\ seenUser' = NoUser
    /\ ires' = NoAnswer
    /\ resp' = NoResp
    /\ lastAdmitted' = IF nextCalls > 0 THEN token ELSE lastAdmitted
    /\ UNCHANGED <<variant, env, phase, urls, idpValid>>
    /\ UNCHANGED concVars
    /\ UNCHANGED browser

Next ==
    \/ Startup
    \/ \E t \in Tokens : Issue(t)
    \/ \E t \in Tokens : Revoke(t)
    \/ Metadata
    \/ Health
    \/ NotFound
    \/ AuthMiddleware
    \/ \E r \in GetUserAnswers(token) : GetUserResolves(r)
    \/ GetUserThrows
    \/ McpEndpoint
    \/ Finish

Spec == Init /\ [][Next]_vars

\* The same server started under every configuration of ConfigEnvs, with an
\* identity service that accepts t1 throughout
InitConfig ==
    /\ variant \in Variants
    /\ env \in ConfigEnvs
    /\ phase = "starting"
    /\ urls = NoUrls
    /\ idpValid = {<<"t1">>}
    /\ pc = "idle"
    /\ req = NoReq
    /\ token = NoText
    /\ calls = 0
    /\ ctxUser = NoUser
    /\ nextCalls = 0
    /\ handlerRuns = 0
    /\ seenUser = NoUser
    /\ ires = NoAnswer
    /\ resp = NoResp
    /\ lastAdmitted = NoText
    /\ conns = NoConns
    /\ serverTransport = NoTransport
    /\ browser = NoBrowser

NextConfig ==
    \/ Startup
    \/ Metadata
    \/ Health
    \/ NotFound
    \/ AuthMiddleware
    \/ \E r \in GetUserAnswers(token) : GetUserResolves(r)
    \/ GetUserThrows
    \/ McpEndpoint
    \/ Finish

SpecConfig == InitConfig /\ [][NextConfig]_vars

\* The hosted server receiving the requests of LongHeaders at the gate, with
\* an identity service that accepts t1 throughout
HostedEnv ==
    [SUPABASE_URL |-> ProdUrl, PUBLIC_URL |-> UndefinedText,
     AUTH_SERVER_URL |-> UndefinedText]

InitParse ==
    /\ variant \in Variants
    /\ env = HostedEnv
    /\ phase = "starting"
    /\ urls = NoUrls
    /\ idpValid = {<<"t1">>}
    /\ pc = "idle"
    /\ req = NoReq
    /\ token = NoText
    /\ calls = 0
    /\ ctxUser = NoUser
    /\ nextCalls = 0
    /\ handlerRuns = 0
    /\ seenUser = NoUser
    /\ ires = NoAnswer
    /\ resp = NoResp
    /\ lastAdmitted = NoText
    /\ conns = NoConns
    /\ serverTransport = NoTransport
    /\ browser = NoBrowser

NextParse ==
    \/ Startup
    \/ AuthMiddlewareOn(LongHeaders)
    \/ \E r \in GetUserAnswers(token) : GetUserResolves(r)
    \/ GetUserThrows
    \/ McpEndpoint
    \/ Finish

SpecParse == InitParse /\ [][NextParse]_vars

----------------------------------------------------------------------------
(* Requests handled concurrently: Deno.serve runs a handler per request, and *)
(* the handlers interleave at their awaits. Each request has its own Hono    *)
(* context and its own transport; the McpServer is the module's.             *)

\* The Authorization headers of the concurrent requests
ConcHeaders ==
    {NoHeader, <<"Basic", SP, "t1">>, <<"Bearer", SP, "t1">>, <<"Bearer", SP, "t2">>}

\* A request to the MCP endpoint arrives; authMiddleware up to its await
CArrives(s) ==
    /\ phase = "serving"
    /\ conns[s].pc = "idle"
    /\ \E h \in ConcHeaders :
          conns' = [conns EXCEPT ![s] =
              CASE GateCheck(h) = "missing" ->
                      [@ EXCEPT !.header = h, !.pc = "done",
                                !.resp = RejectMissing(variant, urls)]
                [] GateCheck(h) = "malformed" ->
                      [@ EXCEPT !.header = h, !.pc = "done",
                                !.resp = RejectBadFormat(variant, urls)]
                [] GateCheck(h) = "validate" ->
                      [@ EXCEPT !.header = h, !.pc = "awaiting",
                                !.token = TokenOf(h)]]
    /\ UNCHANGED <<variant, env, phase, urls, idpValid, reqVars, lastAdmitted,
                   serverTransport>>
    /\ UNCHANGED browser

\* getUser() resolves: authMiddleware rejects, or sets the user and calls next()
CGetUserResolves(s, r) ==
    /\ conns[s].pc = "awaiting"
    /\ ~CreateClientThrows(urls)
    /\ r \in GetUserAnswers(conns[s].token)
    /\ LET vt == validateToken(r)
       IN  conns' = [conns EXCEPT ![s] =
               IF ~vt.valid
               THEN [@ EXCEPT !.ires = r, !.pc = "done",
                              !.resp = RejectInvalidToken(variant, urls, vt.error)]
               ELSE [@ EXCEPT !.ires = r, !.pc = "admitted",
                              !.ctxUser = vt.user]]
    /\ UNCHANGED <<variant, env, phase, urls, idpValid, reqVars, lastAdmitted,
                   serverTransport>>
    /\ UNCHANGED browser

\* getUser() (or createClient) throws
CGetUserThrows(s) ==
    /\ conns[s].pc = "awaiting"
    /\ conns' = [conns EXCEPT ![s] =
                    [@ EXCEPT !.ires = ThrownAnswer, !.pc = "done",
                              !.resp = ErrorResponse]]
    /\ UNCHANGED <<variant, env, phase, urls, idpValid, reqVars, lastAdmitted,
                   serverTransport>>
    /\ UNCHANGED browser

\* The MCP endpoint handler: new transport, await server.connect(transport)
CConnect(s) ==
    /\ conns[s].pc = "admitted"
    /\ serverTransport' = s
    /\ conns' = [conns EXCEPT ![s].pc = "connected", ![s].seenUser = conns[s].ctxUser]
    /\ UNCHANGED <<variant, env, phase, urls, idpValid, reqVars, lastAdmitted>>
    /\ UNCHANGED browser

\* transport.handleRequest: the message goes to the server, and the server
\* answers through the transport it is connected to
CHandleRequest(s) ==
    /\ conns[s].pc = "connected"
    /\ conns' = [conns EXCEPT ![s] =
                    IF serverTransport = s
                    THEN [@ EXCEPT !.pc = "done", !.resp = McpResponse]
                    ELSE [@ EXCEPT !.pc = "stalled"]]
    /\ UNCHANGED <<variant, env, phase, urls, idpValid, reqVars, lastAdmitted,
                   serverTransport>>
    /\ UNCHANGED browser

\* The response is sent (or the client gives up); the context is dropped
CFinish(s) ==
    /\ conns[s].pc \in {"done", "stalled"}
    /\ conns' = [conns EXCEPT ![s] = IdleConn]
    /\ UNCHANGED <<variant, env, phase, urls, idpValid, reqVars, lastAdmitted,
                   serverTransport>>
    /\ UNCHANGED browser

InitConc ==
    /\ variant \in Variants
    /\ env \in Envs
    /\ phase = "starting"
    /\ urls = NoUrls
    /\ idpValid = {}
    /\ pc = "idle"
    /\ req = NoReq
    /\ token = NoText
    /\ calls = 0
    /\ ctxUser = NoUser
    /\ nextCalls = 0
    /\ handlerRuns = 0
    /\ seenUser = NoUser
    /\ ires = NoAnswer
    /\ resp = NoResp
    /\ lastAdmitted = NoText
    /\ conns = NoConns
    /\ serverTransport = NoTransport
    /\ browser = NoBrowser

NextConc ==
    \/ Startup
    \/ \E t \in Tokens : Issue(t)
    \/ \E t \in Tokens : Revoke(t)
    \/ \E s \in Slots : CArrives(s)
    \/ \E s \in Slots : \E r \in GetUserAnswers(conns[s].token) :
           CGetUserResolves(s, r)
    \/ \E s \in Slots : CGetUserThrows(s)
    \/ \E s \in Slots : CConnect(s)
    \/ \E s \in Slots : CHandleRequest(s)
    \/ \E s \in Slots : CFinish(s)

SpecConc == InitConc /\ [][NextConc]_vars

\* The same, with the scheduling the runtime gives: the event loop resumes
\* every handler whose await has settled, and the identity service answers
\* every getUser() call that can be answered
SpecConcFair ==
    /\ SpecConc
    /\ \A s \in Slots :
          /\ WF_vars(\E r \in GetUserAnswers(conns[s].token) :
                         CGetUserResolves(s, r))
          /\ WF_vars(CConnect(s))
          /\ WF_vars(CHandleRequest(s))

----------------------------------------------------------------------------
(* The consent flow in one browser: the consent page, the identity           *)
(* provider's authorize endpoint, the callback page, the client.             *)

serverVars == <<variant, env, phase, urls, idpValid, reqVars, lastAdmitted,
                conns, serverTransport>>

\* The user clicks Deny: handleSubmit("deny")
Deny ==
    /\ browser.pc = "consent"
    /\ LET f == ConsentForm(browser.query)
       IN  IF URLThrows(f.redirectUri)
           THEN browser' = [browser EXCEPT !.pc = "consentThrew"]
           ELSE browser' = [browser EXCEPT !.pc = "atClient",
                                           !.leftFrom = "consent",
                                           !.location = DenyUrl(f)]
    /\ UNCHANGED serverVars

\* The user clicks Allow: handleSubmit("allow")
Allow ==
    /\ browser.pc = "consent"
    /\ browser' = [browser EXCEPT
           !.pc = "atIdp",
           !.leftFrom = "consent",
           !.authorize = AuthUrl(browser.version, ConsentForm(browser.query))]
    /\ UNCHANGED serverVars

\* The identity provider sends the browser to redirect_to; CallbackHandler
\* mounts with status "loading"
IdpReturns(cb) ==
    /\ browser.pc = "atIdp"
    /\ browser.authorize.redirect_to = CallbackPage
    /\ browser' = [browser EXCEPT !.pc = "callback", !.callbackUrl = cb,
                                  !.status = "loading", !.errorMessage = ""]
    /\ UNCHANGED serverVars

\* useEffect runs handleCallback
HandleCallback ==
    /\ browser.pc = "callback"
    /\ LET out == handleCallback(browser.localStorage, browser.callbackUrl)
       IN  browser' =
             CASE out.kind = "caught" ->
                    [browser EXCEPT !.pc = "failed",
                                    !.storedParams = browser.localStorage,
                                    !.localStorage = out.localStorage,
                                    !.errorMessage = out.errorMessage,
                                    !.status = "error"]
               [] out.kind = "errorUrl" ->
                    [browser EXCEPT !.pc = "atClient",
                                    !.leftFrom = "callback",
                                    !.storedParams = browser.localStorage,
                                    !.localStorage = out.localStorage,
                                    !.location = out.url]
               [] out.kind = "success" ->
                    [browser EXCEPT !.pc = "redirecting",
                                    !.storedParams = browser.localStorage,
                                    !.localStorage = out.localStorage,
                                    !.redirectUrl = out.url,
                                    !.status = "success"]
    /\ UNCHANGED serverVars

\* The 500 ms timer fires: window.location.href = redirectUrl.toString()
RedirectTimer ==
    /\ browser.pc = "redirecting"
    /\ browser' = [browser EXCEPT !.pc = "atClient", !.leftFrom = "callback",
                                  !.location = browser.redirectUrl]
    /\ UNCHANGED serverVars

\* The browser opens the consent page with the client's parameters; what
\* localStorage holds for the origin is whatever earlier pages left there
InitFlow ==
    /\ variant = "A"
    /\ env = HostedEnv
    /\ phase = "starting"
    /\ urls = NoUrls
    /\ idpValid = {}
    /\ pc = "idle"
    /\ req = NoReq
    /\ token = NoText
    /\ calls = 0
    /\ ctxUser = NoUser
    /\ nextCalls = 0
    /\ handlerRuns = 0
    /\ seenUser = NoUser
    /\ ires = NoAnswer
    /\ resp = NoResp
    /\ lastAdmitted = NoText
    /\ conns = NoConns
    /\ serverTransport = NoTransport
    /\ \E v \in ConsentVersions, q \in ConsentQueries, item \in StoredItems :
          browser = [NoBrowser EXCEPT !.pc = "consent", !.version = v,
                                      !.query = q, !.localStorage = item]

NextFlow ==
    \/ Deny
    \/ Allow
    \/ \E cb \in CallbackUrls : IdpReturns(cb)
    \/ HandleCallback
    \/ RedirectTimer

SpecFlow == InitFlow /\ [][NextFlow]_vars

----------------------------------------------------------------------------
(* Vocabulary of the properties *)

\* A well-formed bearer header: "<scheme> <credential>", the scheme "bearer" in
\* any letter case, and a non-empty credential as the second segment
WellFormedBearer(h) ==
    /\ h # NoHeader
    /\ Len(Split(h)) >= 2
    /\ ToLowerCase(Split(h)[1]) = <<"bearer">>
    /\ Split(h)[2] # <<>>

\* The request in hand was dispatched to the gate
Gated == req # NoReq /\ FirstHandler(variant, req.method, req.path) = "authMiddleware"

Done == pc = "done"

\* What getUser() gave for the request in hand
Thrown == ires = ThrownAnswer
Returned == ires # NoAnswer /\ ~Thrown
GavePrincipal == Returned /\ ires.user # Null /\ ires.error = NoError
GaveFailure == Returned /\ ~GavePrincipal

\* The 401 body's fields, "-" when the response is no 401 of the gate
RespError == IF resp.by = "authMiddleware" THEN resp.body.error ELSE "-"
RespDescription ==
    IF resp.by = "authMiddleware" THEN resp.body.error_description ELSE "-"

\* The two URLs as the module computes them from the environment when it loads
ResourceIdentity == getUrls(variant, ModuleConstants(variant, env)).mcpResourceUrl
AuthorizationServerReference ==
    getUrls(variant, ModuleConstants(variant, env)).wellKnownAuthorizationServerUrl

\* The challenge with nothing but the resource_metadata URL
BareChallenge ==
    <<"Bearer resource_metadata=\"">> \o Interpolate(ResourceIdentity)
        \o <<WellKnown, "\"">>

HasParam(www, name) == \E i \in 1..Len(www) : www[i] = name

----------------------------------------------------------------------------
(* C1: the MCP endpoint handler has run for a request only if that request   *)
(* carried a well-formed bearer header and getUser() returned a principal    *)
(* for its credential; this holds in each of the three variants.             *)
C1_HandlerOnlyAfterAdmission ==
    (handlerRuns > 0 \/ resp.by = "mcp") =>
        /\ WellFormedBearer(req.header)
        /\ token = Split(req.header)[2]
        /\ calls = 1
        /\ GavePrincipal
        /\ ires.user = UserOf(token)

C1_Witness == handlerRuns = 1 /\ variant = "C" /\ resp.by = "mcp"

C3_Original ==
    (Done /\ Gated) =>
        /\ (req.header # NoHeader /\ ~WellFormedBearer(req.header)) =>
              /\ resp.status = 401
              /\ resp.body = [error |-> "invalid_request",
                              error_description |->
                                  "Invalid authorization header format"]
        /\ WellFormedBearer(req.header) => RespError # "invalid_request"

(* C3 as amended: the same for a header that is present and not the empty    *)
(* string; an Authorization header with an empty value is answered like a    *)
(* missing one ("unauthorized").                                             *)
C3_BadFormatRejected ==
    (Done /\ Gated) =>
        /\ (req.header # NoHeader /\ req.header # <<>>
                /\ ~WellFormedBearer(req.header)) =>
              /\ resp.status = 401
              /\ resp.body = [error |-> "invalid_request",
                              error_description |->
                                  "Invalid authorization header format"]
        /\ req.header = <<>> => RespError = "unauthorized"
        /\ WellFormedBearer(req.header) => RespError # "invalid_request"

C3_Witness ==
    /\ Done /\ Gated
    /\ req.header \in {<<"Bearer", SP>>, <<"Basic", SP, "t1">>}
    /\ RespError = "invalid_request"

HasMcpHandler == variant \in {"A", "B"} \/ req.method = "POST"

C7_NoCarryOver ==
    [][ (pc = "awaiting" /\ pc' # "awaiting") =>
          /\ calls' = 1
          /\ (nextCalls' = 1) <=>
                (ires' # ThrownAnswer /\ ires'.user # Null /\ ires'.error = NoError)
          /\ (nextCalls' = 1) => ctxUser' = ires'.user
          /\ token \notin idpValid =>
                /\ nextCalls' = 0
                /\ handlerRuns' = 0
                /\ ires' # ThrownAnswer =>
                      (resp'.status = 401 /\ resp'.body.error = "invalid_token")
      ]_vars

C7_Witness ==
    /\ Done /\ Gated
    /\ lastAdmitted = token
    /\ ires.error = <<"invalid JWT">>
    /\ RespError = "invalid_token"

(* C8 as claimed: when getUser() ends in a transport error or throws, the    *)
(* request is answered like an invalid token: 401, error "invalid_token", a  *)
(* JSON body and a WWW-Authenticate header; nothing propagates out of the    *)
(* gate, and the MCP endpoint handler does not run.                          *)
C8_FailsClosed ==
    (Done /\ Gated /\ WellFormedBearer(req.header)
        /\ (Thrown \/ ires.error = <<"fetch failed">>)) =>
        /\ resp.status = 401
        /\ RespError = "invalid_token"
        /\ resp.www # NoText
        /\ handlerRuns = 0

\* The request in hand carries no bearer token the identity service vouched for
Unauthenticated == ~WellFormedBearer(req.header) \/ ~GavePrincipal

(* C9 as claimed: whatever the method, a request to the MCP path without a   *)
(* valid bearer token is answered 401 by the gate, in every variant.         *)
C9_EveryMethodGated ==
    (Done /\ req.path = McpPath(variant) /\ Unauthenticated) =>
        (resp.status = 401 /\ resp.by = "authMiddleware")

(* C10: a GET of the well-known discovery path is answered 200 with          *)
(* resource = ResourceIdentity, authorization_servers =                      *)
(* [AuthorizationServerReference] and scopes_supported = [openid, profile,   *)
(* email], whatever Authorization header it carries; handling it calls       *)
(* getUser() not at all and changes no state.                                *)
C10_Discovery ==
    [][ (pc = "idle" /\ req'.method = "GET" /\ req'.path = WellKnown) =>
          /\ pc' = "done"
          /\ resp' = [status |-> 200, by |-> "metadata",
                      body |-> [resource |-> ResourceIdentity,
                                authorization_servers |->
                                    <<AuthorizationServerReference>>,
                                scopes_supported |->
                                    <<"openid", "profile", "email">>],
                      www |-> NoText]
          /\ UNCHANGED <<variant, env, phase, urls, idpValid, token, calls,
                         ctxUser, nextCalls, handlerRuns, seenUser, ires,
                         lastAdmitted>>
      ]_vars

C10_Witness ==
    /\ Done /\ req.method = "GET" /\ req.path = WellKnown
    /\ WellFormedBearer(req.header)
    /\ Split(req.header)[2] \in idpValid
    /\ resp.status = 200 /\ calls = 0

----------------------------------------------------------------------------
(* Vocabulary of the URL properties *)

\* The resource_metadata URL of a challenge: the text between
\* `Bearer resource_metadata="` and the next `"`
ResourceMetadataOf(www) ==
    LET k == CHOOSE i \in 2..Len(www) :
                 /\ www[i] = "\""
                 /\ \A j \in 2..(i - 1) : www[j] # "\""
    IN  SubSeq(www, 2, k - 1)

IsChallenge(www) ==
    /\ www # NoText
    /\ Len(www) >= 2
    /\ www[1] = "Bearer resource_metadata=\""
    /\ \E i \in 2..Len(www) : www[i] = "\""

HostSymbols ==
    {"proj", ".supabase.co", "kong", "-proj", "my", "localhost", ".example.com",
     "127.0.0.1", "mcp.example.com", "auth.example.com"}

RECURSIVE HostFrom(_, _)
HostFrom(url, i) ==
    IF i > Len(url) \/ url[i] \notin HostSymbols THEN <<>>
    ELSE <<url[i]>> \o HostFrom(url, i + 1)

HostOf(url) ==
    IF Len(url) >= 1 /\ url[1] \in {"http://", "https://"}
    THEN HostFrom(url, 2) ELSE <<>>

\* host:port of a URL text
HostPortOf(url) ==
    LET h == HostOf(url)
        k == Len(h) + 2
    IN  IF h # <<>> /\ k <= Len(url) /\ url[k] \in {":8000", ":54321"}
        THEN h \o <<url[k]>> ELSE h

\* A base URL carries a local-development marker: its host is a loopback
\* host or the internal service-mesh hostname
LocalMarkerHost(url) == HostOf(url) \in {<<"localhost">>, <<"127.0.0.1">>, <<"kong">>}

BaseConfigured == env.SUPABASE_URL # UndefinedText
PublicOverrideConfigured == ~FalsyText(env.PUBLIC_URL)
AuthOverrideConfigured == ~FalsyText(env.AUTH_SERVER_URL)

\* The base after local-marker substitution
ResolvedBase(base) == IF LocalMarkerHost(base) THEN LocalBase ELSE base

\* ResourceIdentity by the three-level priority
ThreeLevelResource(v, e) ==
    IF ~FalsyText(e.PUBLIC_URL) THEN e.PUBLIC_URL
    ELSE ResolvedBase(e.SUPABASE_URL) \o <<"/functions/v1/", functionName[v]>>

(* C12 as claimed: in each variant the resource a discovery response         *)
(* publishes is resolved by the three-level priority: the public-URL         *)
(* override verbatim when one is configured, else the local-loopback base    *)
(* when the base URL's host is a local-development marker, else the          *)
(* configured base URL unmodified.                                           *)
C12_ThreeLevelPriority ==
    (resp.by = "metadata" /\ (BaseConfigured \/ PublicOverrideConfigured)) =>
        /\ ResourceIdentity = ThreeLevelResource(variant, env)
        /\ resp.body.resource = ThreeLevelResource(variant, env)

(* C13 as claimed: with no override configured and a base URL B whose host   *)
(* is neither a loopback host nor the service-mesh hostname (also when the   *)
(* text of B contains 'kong' or 'localhost'), discovery returns              *)
(* resource = B + "/functions/v1/<function name>" and                        *)
(* authorization_servers = [B + "/auth/v1"].                                 *)
C13_ProductionBaseUnmodified ==
    (/\ resp.by = "metadata"
     /\ BaseConfigured /\ ~LocalMarkerHost(env.SUPABASE_URL)
     /\ ~PublicOverrideConfigured /\ ~AuthOverrideConfigured) =>
        /\ resp.body.resource =
               env.SUPABASE_URL \o <<"/functions/v1/", functionName[variant]>>
        /\ resp.body.authorization_servers =
               <<env.SUPABASE_URL \o <<"/auth/v1">>>>

(* C14 as claimed: with no public-URL override configured and a base URL     *)
(* whose host is a loopback host (127.0.0.1, localhost) or the service-mesh  *)
(* hostname (kong), the published ResourceIdentity has host localhost:54321, *)
(* in every variant.                                                         *)
C14_LocalMarkerSubstituted ==
    (/\ resp.by = "metadata"
     /\ BaseConfigured /\ LocalMarkerHost(env.SUPABASE_URL)
     /\ ~PublicOverrideConfigured) =>
        /\ HostPortOf(ResourceIdentity) = <<"localhost", ":54321">>
        /\ HostPortOf(resp.body.resource) = <<"localhost", ":54321">>

(* C15 as claimed: AuthorizationServerReference is the authorization-server  *)
(* override when one is configured, and otherwise the resolved base (the     *)
(* base URL after local-marker substitution) followed by "/auth/v1"; with a  *)
(* local-marker base and no override it is "http://localhost:54321/auth/v1". *)
C15_AuthorizationServerResolved ==
    (resp.by = "metadata" /\ (BaseConfigured \/ AuthOverrideConfigured)) =>
        LET expected == IF AuthOverrideConfigured THEN env.AUTH_SERVER_URL
                        ELSE ResolvedBase(env.SUPABASE_URL) \o <<"/auth/v1">>
        IN  /\ AuthorizationServerReference = expected
            /\ resp.body.authorization_servers = <<expected>>

(* C16 as claimed: when neither a base URL nor a public-URL override is      *)
(* configured, the module does not start serving: no request is taken or     *)
(* answered, and no document or challenge built from the absent value is     *)
(* published.                                                                *)
C16_AbsentConfigIsFatal ==
    (~BaseConfigured /\ ~PublicOverrideConfigured) =>
        /\ phase # "serving"
        /\ req = NoReq
        /\ resp = NoResp

(* C17 as claimed: under every configuration the server starts with, the    *)
(* resource_metadata URL of a 401 challenge is ResourceIdentity + the        *)
(* well-known path, and a GET of that URL is routed to this server's         *)
(* metadata handler, whose document has a non-empty authorization_servers.   *)
C17_ChallengeRoundTrip ==
    (phase = "serving" /\ resp.status = 401) =>
        /\ IsChallenge(resp.www)
        /\ ResourceMetadataOf(resp.www) =
               Interpolate(ResourceIdentity) \o <<WellKnown>>
        /\ FetchRoute(variant, env, ResourceMetadataOf(resp.www)) = "metadata"
        /\ MetadataResponse(variant, urls).body.authorization_servers # <<>>

\* The document a GET handler of this server answers with
DocumentOf(handler, v, u) ==
    CASE handler = "metadata" -> MetadataResponse(v, u).body
      [] handler = "health"   -> HealthResponse(v).body
      [] OTHER                -> NotFoundResponse.body

\* The document a client reaches by following the challenge of a 401
ChallengeDocument(v, e) ==
    LET u == ModuleConstants(v, e)
        url == ResourceMetadataOf(RejectMissing(v, u).www)
    IN  DocumentOf(FetchRoute(v, e, url), v, u)

\* The document a client reaches at the function's well-known discovery path
WellKnownDocument(v, e) ==
    DocumentOf(FirstHandler(v, "GET", WellKnown), v, ModuleConstants(v, e))

(* C18 as claimed: the servers can be configured so that the two documents   *)
(* differ: among the configurations a server starts with there is one in     *)
(* which the document reached through the challenge's resource_metadata URL  *)
(* names another authorization server than the document at the well-known    *)
(* path.                                                                     *)
C18_IndependentAuthorizationServers ==
    phase = "serving" =>
        \E v \in Variants, e \in ConfigEnvs :
            /\ ~LoadThrows(v, e)
            /\ FetchRoute(v, e, ResourceMetadataOf(
                   RejectMissing(v, ModuleConstants(v, e)).www)) = "metadata"
            /\ ChallengeDocument(v, e).authorization_servers
                   # WellKnownDocument(v, e).authorization_servers

\* What a request in flight gets when it is handled alone: a function of its
\* own header and of what getUser() gave for its own credential
AloneOutcome(c) ==
    CASE GateCheck(c.header) = "missing"   -> RejectMissing(variant, urls)
      [] GateCheck(c.header) = "malformed" -> RejectBadFormat(variant, urls)
      [] c.ires = ThrownAnswer             -> ErrorResponse
      [] ~validateToken(c.ires).valid ->
             RejectInvalidToken(variant, urls, validateToken(c.ires).error)
      [] OTHER                             -> McpResponse

(* C19 as claimed: under any interleaving of concurrent requests each        *)
(* request's outcome, and the principal its handler sees, depend only on its *)
(* own header and its own getUser() result and are what they would be had    *)
(* the request been handled alone; connecting a new transport to the         *)
(* module-level server for each request does not change that.                *)
C19_RequestsIsolated ==
    \A s \in Slots :
        /\ conns[s].pc \in {"done", "stalled"} =>
              conns[s].resp = AloneOutcome(conns[s])
        /\ conns[s].pc \in {"connected", "stalled"} =>
              conns[s].seenUser = conns[s].ires.user
        /\ conns[s].resp.by = "mcp" => conns[s].seenUser = conns[s].ires.user

(* C20 as claimed: the error code of a gate rejection is "unauthorized" if  *)
(* and only if the request has no Authorization header at all,               *)
(* "invalid_request" if and only if a header is present (with any value, the *)
(* empty one included) but is not a bearer scheme with a non-empty token,    *)
(* and "invalid_token" if and only if the header is well-formed and          *)
(* getUser() did not return a principal; error_description is never empty.   *)
C20_Original ==
    (Done /\ Gated /\ resp.by = "authMiddleware") =>
        /\ RespError = "unauthorized" <=> req.header = NoHeader
        /\ RespError = "invalid_request" <=>
               (req.header # NoHeader /\ ~WellFormedBearer(req.header))
        /\ RespError = "invalid_token" <=>
               (WellFormedBearer(req.header) /\ GaveFailure)
        /\ ~Falsy(RespDescription)

(* C20 as amended: "unauthorized" if and only if the header is absent or is  *)
(* the empty string; "invalid_request" if and only if the header is present, *)
(* not empty, and not a bearer scheme with a non-empty token; the rest as    *)
(* claimed.                                                                  *)
C20_Taxonomy ==
    (Done /\ Gated /\ resp.by = "authMiddleware") =>
        /\ resp.status = 401
        /\ RespError \in {"unauthorized", "invalid_request", "invalid_token"}
        /\ RespError = "unauthorized" <=> req.header \in {NoHeader, <<>>}
        /\ RespError = "invalid_request" <=>
               (req.header \notin {NoHeader, <<>>}
                    /\ ~WellFormedBearer(req.header))
        /\ RespError = "invalid_token" <=>
               (WellFormedBearer(req.header) /\ GaveFailure)
        /\ ~Falsy(RespDescription)

\* A request with an empty Authorization value, answered as a missing header
C20_Witness ==
    /\ Done /\ Gated /\ resp.by = "authMiddleware"
    /\ req.header = <<>>
    /\ RespError = "unauthorized"
    /\ RespDescription = "Missing authorization header"

\* The value of a parameter of a challenge: the text after `, <name>="`
ParamOf(www, name) ==
    www[(CHOOSE i \in 1..(Len(www) - 1) : www[i] = name) + 1]

(* C21 as claimed: on the invalid_request and invalid_token rejections the   *)
(* WWW-Authenticate header serializes the challenge of the JSON body: its    *)
(* error parameter equals the body's error, and its error_description        *)
(* parameter, when present, equals the body's error_description.             *)
C21_HeaderMatchesBody ==
    (Done /\ Gated /\ RespError \in {"invalid_request", "invalid_token"}) =>
        /\ HasParam(resp.www, ", error=\"")
        /\ ParamOf(resp.www, ", error=\"") = resp.body.error
        /\ HasParam(resp.www, ", error_description=\"") =>
               ParamOf(resp.www, ", error_description=\"")
                   = resp.body.error_description

\* The identity service has answered the introspection call of request s
Answered(s) ==
    conns[s].ires # NoAnswer /\ conns[s].ires # ThrownAnswer

\* Request s has its one response: the protected handler's, or the gate's 401
HandlerOrGateAnswered(s) ==
    /\ conns[s].pc = "done"
    /\ \/ conns[s].resp.by = "mcp"
       \/ conns[s].resp.by = "authMiddleware" /\ conns[s].resp.status = 401

(* C22 as claimed: every request to the protected path whose introspection   *)
(* call the identity service has answered eventually has exactly one         *)
(* response, the protected handler's or a 401 of the gate.                   *)
C22_EventuallyOneResponse ==
    \A s \in Slots : Answered(s) ~> HandlerOrGateAnswered(s)

\* The places of the spaces of a header value, and the text between its first
\* space and its second (or its end)
SpacePositions(h) == {i \in 1..Len(h) : h[i] = SP}

FirstSpace(h) == CHOOSE i \in SpacePositions(h) : \A j \in SpacePositions(h) : i <= j

SecondSegment(h) ==
    LET later == {i \in SpacePositions(h) : i > FirstSpace(h)}
        stop == IF later = {} THEN Len(h) + 1
                ELSE CHOOSE i \in later : \A j \in later : i <= j
    IN  SubSeq(h, FirstSpace(h) + 1, stop - 1)

\* A bearer scheme, one space, a credential, a space, and more
HasLaterSegments(h) ==
    /\ h # NoHeader
    /\ Cardinality(SpacePositions(h)) >= 2
    /\ ToLowerCase(SubSeq(h, 1, FirstSpace(h) - 1)) = <<"bearer">>
    /\ SecondSegment(h) # <<>>

\* A scheme followed by two spaces
DoubleSpaceAfterScheme(h) ==
    /\ h # NoHeader
    /\ SpacePositions(h) # {}
    /\ FirstSpace(h) > 1
    /\ FirstSpace(h) + 1 \in SpacePositions(h)

(* C23: the credential the gate submits to introspection is the second       *)
(* space-delimited segment of the Authorization header, not empty and with   *)
(* no space in it; a bearer header with further segments after the           *)
(* credential is submitted with that second segment; a header with two       *)
(* spaces after the scheme is rejected invalid_request with no introspection *)
(* call.                                                                     *)
C23_SecondSegmentSubmitted ==
    (Gated /\ pc # "idle") =>
        /\ calls \in {0, 1}
        /\ calls = 1 =>
              /\ req.header # NoHeader
              /\ SpacePositions(req.header) # {}
              /\ token = SecondSegment(req.header)
              /\ token # <<>>
              /\ \A i \in 1..Len(token) : token[i] # SP
        /\ HasLaterSegments(req.header) =>
              calls = 1 /\ token = SecondSegment(req.header)
        /\ DoubleSpaceAfterScheme(req.header) =>
              calls = 0 /\ Done /\ RespError = "invalid_request"

\* A bearer header with a second credential after the first was admitted on
\* the first
C23_Witness ==
    /\ Done /\ Gated
    /\ req.header = <<"Bearer", SP, "t1", SP, "t2">>
    /\ calls = 1 /\ token = <<"t1">>
    /\ resp.by = "mcp"

\* The callback page's handler has run in this flow
CallbackRan ==
    \/ browser.pc \in {"failed", "redirecting"}
    \/ browser.pc = "atClient" /\ browser.leftFrom = "callback"

\* What the consent page was given
Given == ConsentForm(browser.query)

(* C24 as claimed: after Allow on the consent page that carries the MCP      *)
(* OAuth parameters through the identity provider, when the provider returns *)
(* to the callback page with an access token and no error, the callback page *)
(* reaches status "success" and sends the browser to the redirect_uri given  *)
(* to the consent page, with a code and the original state.                  *)
C24_ConsentFlowCompletes ==
    (/\ browser.version = "google"
     /\ ~URLThrows(Given.redirectUri)
     /\ CallbackRan
     /\ SetIf(browser.callbackUrl.error) = Null
     /\ SetIf(browser.callbackUrl.access_token) # Null) =>
        /\ browser.status = "success"
        /\ browser.redirectUrl.href = Given.redirectUri
        /\ browser.redirectUrl.code.set
        /\ browser.redirectUrl.state = SetIf(Given.state)

\* What the run of handleCallback found
FoundRedirectUri ==
    browser.storedParams.kind = "json" /\ browser.storedParams.obj.redirect_uri # ""
IdpError == SetIf(browser.callbackUrl.error) # Null
FoundAccessToken == SetIf(browser.callbackUrl.access_token) # Null

\* The browser was sent to the client from the callback page
RedirectedByCallback == browser.pc = "atClient" /\ browser.leftFrom = "callback"

\* The status changes only from "loading", to "success" or to "error"
StatusChangesOnce ==
    browser'.status # browser.status =>
        browser.status = "loading" /\ browser'.status \in {"success", "error"}

\* A redirect with a code only after stored parameters with a redirect_uri, no
\* error of the identity provider, and an access token
CodeOnlyOnSuccess ==
    (browser.redirectUrl.code.set \/ browser.location.code.set) =>
        /\ CallbackRan
        /\ FoundRedirectUri /\ ~IdpError /\ FoundAccessToken

\* The identity provider's error goes to the stored redirect_uri, with the
\* stored state when there is one, and with no code
ErrorForwarded ==
    /\ RedirectedByCallback
    /\ browser.location.href = browser.storedParams.obj.redirect_uri
    /\ browser.location.error = browser.callbackUrl.error
    /\ browser.location.state = SetIf(browser.storedParams.obj.state)
    /\ ~browser.location.code.set

\* No redirect in a run that ends in status "error"
NoRedirectOnError ==
    browser.status = "error" =>
        /\ browser.pc = "failed"
        /\ browser.location = NoLocation
        /\ browser.redirectUrl = NoLocation

(* C25 as claimed: the callback page's status starts "loading" and changes   *)
(* at most once, to "success" or to "error"; a redirect with a code happens  *)
(* only after stored parameters with a redirect_uri, no error and an access  *)
(* token; whenever the identity provider reports an error the browser is     *)
(* sent to the redirect_uri with that error and no code; a run that ends in  *)
(* status "error" redirects nowhere.                                         *)
C25_Original ==
    [][/\ StatusChangesOnce
       /\ CodeOnlyOnSuccess'
       /\ (CallbackRan' /\ IdpError') => ErrorForwarded'
       /\ NoRedirectOnError']_vars

(* C25 amended: the same, with the identity provider's error forwarded when  *)
(* the run found stored parameters whose redirect_uri is an absolute URL;    *)
(* in every other run with an error of the identity provider the status      *)
(* ends "error" and nothing is forwarded.                                    *)
C25_CallbackOutcomes ==
    [][/\ StatusChangesOnce
       /\ CodeOnlyOnSuccess'
       /\ (CallbackRan' /\ IdpError') =>
             IF FoundRedirectUri' /\ ~URLThrows(browser'.storedParams.obj.redirect_uri)
             THEN ErrorForwarded' /\ browser'.status = "loading"
             ELSE browser'.status = "error"
       /\ NoRedirectOnError']_vars

\* The identity provider's error was forwarded to the client
C25_Witness ==
    /\ RedirectedByCallback
    /\ IdpError
    /\ browser.location.error = "server_error"
    /\ browser.location.state = "s2"
    /\ browser.status = "loading"

\* The browser was sent to the client by the consent page's Deny
Denied == browser.pc = "atClient" /\ browser.leftFrom = "consent"

====
